---- MODULE Spec2Model ----
(***************************************************************************)
(* Model of the lexer front end of sonic-lingua:                           *)
(*   src/src/query/types.rs      QueryGenericLang::from_value              *)
(*   src/src/lexer/stopwords.rs  LexerStopWord::is / lang_stopwords        *)
(*   src/src/lexer/token.rs      TokenLexerMode, TokenLexerBuilder,        *)
(*                               TokenLexer (Iterator)                     *)
(* A text is a sequence of characters (one-character strings); a word is   *)
(* a non-empty sequence of characters.                                     *)
(***************************************************************************)
EXTENDS Integers, Sequences, FiniteSets, TLC

VARIABLES
    pc,           \* position of the caller: "start", "hint", "mode", "built", "done", "is"
    hint,         \* the external selector string handed to from_value, or NoHint
    query_lang,   \* Option<QueryGenericLang>
    mode,         \* TokenLexer.mode
    text,         \* the text handed to TokenLexerBuilder::from
    locale,       \* TokenLexer.locale : Option<Language>
    words,        \* TokenLexer.words : the spans not yet consumed
    yields,       \* TokenLexer.yields : HashSet<StoreTermHashed>
    ret,          \* what the last TokenLexer::next call returned
    out,          \* history: the (token, hash) pairs yielded so far, in order
    outpos,       \* history: for each yielded pair, the index of the span it came from
    detect_calls, \* history: how many times detect_lang ran
    is_word,      \* argument of the last direct LexerStopWord::is call
    is_locale,    \* argument of the last direct LexerStopWord::is call
    is_result,    \* its result
    dl_text,      \* argument of the last direct detect_lang call
    dl_safe,      \* history: the text that call handed to the detector, or a panic
    dl_result,    \* its result
    lex,          \* two lexer instances: for each its position ("new", "built", "done"),
                  \* the fields of TokenLexer, and the history of the pairs it yielded
    once,         \* for each lazy static: the state of its Once
    cell,         \* for each lazy static: the value its cell holds, None before the store
    builds,       \* history: for each lazy static, how many times its initializer started
    writes,       \* history: for each lazy static, how many times its cell was written
    lindera,      \* feature tokenizer-japanese: the state of the Once of TOKENIZER_LINDERA
    seg,          \* feature tokenizer-japanese: the lexer TokenLexerBuilder::from built, the
                  \* variant of its TokenLexerWords, and the last span taken from it
    th            \* the threads calling LexerStopWord::is: position, arguments, the set
                  \* under construction, the set read and the result

main_vars == <<pc, hint, query_lang, mode, text, locale, words, yields, ret, out, outpos,
               detect_calls, is_word, is_locale, is_result>>
detect_vars == <<dl_text, dl_safe, dl_result>>
two_vars == <<lex>>
thread_vars == <<once, cell, builds, writes, th>>
seg_vars == <<lindera, seg>>
ext_vars == <<detect_vars, two_vars, thread_vars, seg_vars>>
vars == <<main_vars, ext_vars>>

(***************************************************************************)
(* Bounds                                                                  *)
(***************************************************************************)
\* a text is the concatenation of at most MaxUnits units of TextUnits
MaxUnits == 4
\* a long text is a padding, one character of 1 to 4 bytes, and a tail: the padding
\* is at most PadSlack characters shorter and at most one character longer than
\* TEXT_LANG_TRUNCATE_OVER_CHARS, the tail has at most MaxTail characters
PadSlack == 4
MaxTail == 4
\* a text of the two lexer instances is the concatenation of at most MaxUnitsTwo units
\* of TwoUnits
MaxUnitsTwo == 1
\* the threads that call LexerStopWord::is concurrently
NumThreads == 2
\* a text of a lexer that is pulled from until exhausted is the concatenation of at most
\* MaxUnitsPull units of TextUnits
MaxUnitsPull == 2
\* a text of the build with the Japanese tokenizer is the concatenation of at most
\* MaxUnitsSeg units of SegUnits
MaxUnitsSeg == 2

(***************************************************************************)
(* Rust Option                                                             *)
(***************************************************************************)
None == <<"None">>
Some(x) == <<"Some", x>>
IsSome(o) == o[1] = "Some"
Unwrap(o) == o[2]

(***************************************************************************)
(* Words used by the model                                                 *)
(***************************************************************************)
W_The == <<"T", "h", "e">>
W_the == <<"t", "h", "e">>
W_fox == <<"f", "o", "x">>
W_ici == <<"i", "c", "i">>
W_le == <<"l", "e">>
W_der == <<"d", "e", "r">>
W_over == <<"o", "v", "e", "r">>

\* lingua::Language (the languages the model keeps)
Language == {"English", "French", "German"}

(***************************************************************************)
(* query/types.rs                                                          *)
(***************************************************************************)
Enabled(lang) == <<"Enabled", lang>>
Disabled == <<"Disabled">>

\* IsoCode639_3::from_str: Ok(code) for a known three-letter code, Err otherwise
IsoCode639_3_from_str(value) ==
    IF value \in {"eng", "fra", "deu"} THEN <<"Ok", value>> ELSE <<"Err">>

\* Language::from_iso_code_639_3
Language_from_iso_code_639_3(code) ==
    CASE code = "eng" -> "English"
      [] code = "fra" -> "French"
      [] code = "deu" -> "German"

from_value_NoSentinel(value) ==
    LET isocode == IsoCode639_3_from_str(value) IN
    IF isocode[1] = "Err"
    THEN None
    ELSE Some(Enabled(Language_from_iso_code_639_3(isocode[2])))

\* QueryGenericLang::from_value
from_value(value) ==
    IF value = "none"
    THEN Some(Disabled)
    ELSE LET isocode == IsoCode639_3_from_str(value) IN
         IF isocode[1] = "Err"
         THEN None
         ELSE Some(Enabled(Language_from_iso_code_639_3(isocode[2])))

(***************************************************************************)
(* lexer/stopwords.rs                                                      *)
(***************************************************************************)
\* the word tables of crate::stopwords (eng::STOPWORDS_ENG, ...): slices of words
eng_STOPWORDS_ENG == <<W_the, W_over>>
fra_STOPWORDS_FRA == <<W_ici, W_le>>
deu_STOPWORDS_DEU == <<W_der>>

\* fn make: collects a slice into a set
make(table) == {table[i] : i \in DOMAIN table}

\* lazy_static sets
STOPWORDS_ENG == make(eng_STOPWORDS_ENG)
STOPWORDS_FRA == make(fra_STOPWORDS_FRA)
STOPWORDS_DEU == make(deu_STOPWORDS_DEU)

\* the lazy statics by name
Statics == {"STOPWORDS_ENG", "STOPWORDS_FRA", "STOPWORDS_DEU"}

\* the word table the initializer of a lazy static collects
StaticTable(name) ==
    CASE name = "STOPWORDS_ENG" -> eng_STOPWORDS_ENG
      [] name = "STOPWORDS_FRA" -> fra_STOPWORDS_FRA
      [] name = "STOPWORDS_DEU" -> deu_STOPWORDS_DEU

\* the value of a lazy static once initialized
StaticValue(name) ==
    CASE name = "STOPWORDS_ENG" -> STOPWORDS_ENG
      [] name = "STOPWORDS_FRA" -> STOPWORDS_FRA
      [] name = "STOPWORDS_DEU" -> STOPWORDS_DEU

lang_stopwords_ref_NoDefault(lang) ==
    CASE lang = "English" -> "STOPWORDS_ENG"
      [] lang = "French" -> "STOPWORDS_FRA"
      [] OTHER -> "STOPWORDS_DEU"

\* LexerStopWord::lang_stopwords: the static an arm refers to; German has no arm and
\* takes the default one
lang_stopwords_ref(lang) ==
    CASE lang = "English" -> "STOPWORDS_ENG"
      [] lang = "French" -> "STOPWORDS_FRA"
      [] OTHER -> "STOPWORDS_ENG"

\* the languages of the model that have an arm of their own in lang_stopwords
MappedLanguages == {"English", "French"}

\* LexerStopWord::lang_stopwords: the set the reference gives
lang_stopwords(lang) == StaticValue(lang_stopwords_ref(lang))

OnceMayRun_Racy(state) == state # "COMPLETE"

\* lazy_static (Once::call_once): the caller runs the initializer
OnceMayRun(state) == state = "INCOMPLETE"

\* lazy_static (Once::call_once): the caller goes on to read the cell
OnceDone(state) == state = "COMPLETE"

LexerStopWord_is_IgnoresLocale(word, loc) ==
    word \in STOPWORDS_ENG

\* LexerStopWord::is
LexerStopWord_is(word, loc) ==
    IF IsSome(loc) /\ word \in lang_stopwords(Unwrap(loc))
    THEN TRUE
    ELSE FALSE

(***************************************************************************)
(* store/identifiers.rs: StoreTermHash::from, a deterministic hash of the  *)
(* token's characters into a fixed-width unsigned integer                   *)
(***************************************************************************)
\* number of values of StoreTermHashed (the width of the hash, scaled down)
HashSpace == 16

CharCode(c) ==
    CASE c = " " -> 32 [] c = "!" -> 33 [] c = "T" -> 84
      [] c = "c" -> 99 [] c = "d" -> 100 [] c = "e" -> 101 [] c = "f" -> 102
      [] c = "h" -> 104 [] c = "i" -> 105 [] c = "l" -> 108 [] c = "o" -> 111
      [] c = "r" -> 114 [] c = "t" -> 116 [] c = "v" -> 118 [] c = "x" -> 120

RECURSIVE HashFold(_, _, _)
HashFold(word, i, h) ==
    IF i > Len(word) THEN h
    ELSE HashFold(word, i + 1, (h * 31 + CharCode(word[i])) % HashSpace)

StoreTermHash_from(word) == HashFold(word, 1, 7)

(***************************************************************************)
(* Library functions used by lexer/token.rs                                *)
(***************************************************************************)
\* characters that take more than one byte in UTF-8: e acute (U+00E9, 2 bytes), the
\* ideograph U+5FEB (3 bytes) and the rocket emoji (U+1F680, 4 bytes)
C_eacute == "U+00E9"
C_kuai == "U+5FEB"
C_rocket == "U+1F680"

\* char::to_lowercase
LowerChar(c) == IF c = "T" THEN "t" ELSE c

\* str::to_lowercase
to_lowercase(word) == [i \in 1..Len(word) |-> LowerChar(word[i])]

\* characters that UAX29 keeps inside a word
IsWordChar(c) == c \notin {" ", "!", C_rocket}

\* characters that UAX29 makes a word of their own (ideographs)
IsIdeograph(c) == c = C_kuai

\* the positions of t where a word starts
WordStarts(t) ==
    {i \in DOMAIN t :
        /\ IsWordChar(t[i])
        /\ \/ i = 1
           \/ ~IsWordChar(t[i - 1])
           \/ IsIdeograph(t[i])
           \/ IsIdeograph(t[i - 1])}

\* the position where the word that starts at i ends: before the next start or the
\* next character that is not a word character
WordEnd(t, starts, i) ==
    IF \A j \in (i + 1)..Len(t) : IsWordChar(t[j]) /\ j \notin starts
    THEN Len(t)
    ELSE (CHOOSE j \in (i + 1)..Len(t) :
              /\ ~IsWordChar(t[j]) \/ j \in starts
              /\ \A k \in (i + 1)..(j - 1) : IsWordChar(t[k]) /\ k \notin starts) - 1

\* UnicodeSegmentation::unicode_words: the maximal runs of word characters, in order
\* (an ideograph is a word of its own)
unicode_words(t) ==
    LET starts == WordStarts(t)
        nth(k) == CHOOSE i \in starts : Cardinality({x \in starts : x < i}) = k - 1
    IN [k \in 1..Cardinality(starts) |-> SubSeq(t, nth(k), WordEnd(t, starts, nth(k)))]

\* char::len_utf8
Utf8Len(c) ==
    CASE c = C_eacute -> 2
      [] c = C_kuai -> 3
      [] c = C_rocket -> 4
      [] OTHER -> 1

\* the length in bytes of the first k characters of t
PrefixBytes(t, k) ==
    LET wide == {i \in 1..k : Utf8Len(t[i]) > 1}
    IN k + Cardinality({<<i, b>> \in wide \X (2..4) : b <= Utf8Len(t[i])})

\* str::len: the length in bytes
ByteLen(t) == PrefixBytes(t, Len(t))

\* &text[0..end]: the characters before byte offset end; the slice panics when end
\* is inside a character or past the end
ByteSlice(t, end) ==
    LET cuts == {k \in 0..Len(t) : PrefixBytes(t, k) = end}
    IN IF cuts = {} THEN <<"Panic">> ELSE <<"Ok", SubSeq(t, 1, CHOOSE k \in cuts : TRUE)>>

\* what lingua's detector knows of each language
Lexicon(lang) ==
    CASE lang = "English" -> {W_the, W_over, W_fox}
      [] lang = "French" -> {W_ici, W_le}
      [] lang = "German" -> {W_der}

\* LanguageDetector::detect_language_of: a deterministic function of the text; the
\* language with the strictly best score, absent when no language stands out
detect_language_of(t) ==
    LET ws == unicode_words(t)
        score(lang) == Cardinality({i \in DOMAIN ws : to_lowercase(ws[i]) \in Lexicon(lang)})
        best == {l \in Language : score(l) > 0 /\ \A m \in Language \ {l} : score(m) < score(l)}
    IN IF best = {} THEN None ELSE Some(CHOOSE l \in best : TRUE)

(***************************************************************************)
(* lexer/token.rs                                                          *)
(***************************************************************************)
TEXT_LANG_TRUNCATE_OVER_CHARS == 200

NormalizeAndCleanup(optlang) == <<"NormalizeAndCleanup", optlang>>
NormalizeOnly == <<"NormalizeOnly">>

TruncateIndex_Bytes(t) == Some(TEXT_LANG_TRUNCATE_OVER_CHARS)

\* detect_lang, lines 116-117: text.char_indices().nth(TEXT_LANG_TRUNCATE_OVER_CHARS),
\* the byte offset of the character of that index (counted from 0), if there is one
TruncateIndex(t) ==
    IF Len(t) > TEXT_LANG_TRUNCATE_OVER_CHARS
    THEN Some(PrefixBytes(t, TEXT_LANG_TRUNCATE_OVER_CHARS))
    ELSE None

\* detect_lang, lines 99-122: the text handed to the detector, <<"Ok", safe_text>>,
\* or <<"Panic">>
SafeText(t) ==
    IF ByteLen(t) > TEXT_LANG_TRUNCATE_OVER_CHARS
    THEN LET end_index == TruncateIndex(t) IN
         IF IsSome(end_index) THEN ByteSlice(t, Unwrap(end_index)) ELSE <<"Ok", t>>
    ELSE <<"Ok", t>>

\* TokenLexerBuilder::detect_lang
detect_lang(t) ==
    LET safe_text == SafeText(t) IN
    IF safe_text[1] = "Ok" THEN detect_language_of(safe_text[2]) ELSE <<"Panic">>

from_query_lang_AlwaysDetect(lang) ==
    CASE lang = None -> NormalizeAndCleanup(None)
      [] lang = Some(Disabled) -> NormalizeOnly
      [] OTHER -> NormalizeAndCleanup(None)

\* TokenLexerMode::from_query_lang
from_query_lang(lang) ==
    CASE lang = None -> NormalizeAndCleanup(None)
      [] lang = Some(Disabled) -> NormalizeOnly
      [] OTHER -> NormalizeAndCleanup(Some(Unwrap(lang)[2]))

\* does TokenLexerBuilder::from run detect_lang for this mode
RunsDetect(m) == m = NormalizeAndCleanup(None)

BuilderLocale_InconclusiveEnglish(m, t) ==
    CASE m = NormalizeAndCleanup(None) ->
             (IF detect_lang(t) = None THEN Some("English") ELSE detect_lang(t))
      [] m = NormalizeOnly -> None
      [] OTHER -> Some(Unwrap(m[2]))

\* TokenLexerBuilder::from: the locale the lexer is built with
BuilderLocale(m, t) ==
    CASE m = NormalizeAndCleanup(None) -> detect_lang(t)
      [] m = NormalizeOnly -> None
      [] OTHER -> Some(Unwrap(m[2]))

\* TokenLexer::new: the span sequence (the default UAX29 segmentation)
NewWords(t, loc) == unicode_words(t)

Normalize_Identity(word) == word

\* TokenLexer::next, line 203: the normalized word
Normalize(word) == to_lowercase(word)

KeepsWord_FiltersAlways(m, word, loc) ==
    ~LexerStopWord_is(word, Some("English"))

KeepsWord_DropsShort(m, word, loc) ==
    (m = NormalizeOnly \/ ~LexerStopWord_is(word, loc)) /\ Len(word) > 3

\* TokenLexer::next, line 206: the word goes on to the duplicate test
KeepsWord(m, word, loc) ==
    m = NormalizeOnly \/ ~LexerStopWord_is(word, loc)

AlreadyYielded_Never(ys, term_hash) == FALSE

\* TokenLexer::next, line 214
AlreadyYielded(ys, term_hash) == term_hash \in ys

YieldsInsert_Lost(ys, term_hash) == ys

\* TokenLexer::next, line 217
YieldsInsert(ys, term_hash) == ys \cup {term_hash}

TokenLexer_next_StopsAtDrop(m, loc, ws, ys) ==
    IF ws = <<>>
    THEN [ret |-> None, words |-> <<>>, yields |-> ys]
    ELSE LET word == Normalize(Head(ws))
             term_hash == StoreTermHash_from(word)
         IN IF KeepsWord(m, word, loc) /\ ~AlreadyYielded(ys, term_hash)
            THEN [ret |-> Some(<<word, term_hash>>),
                  words |-> Tail(ws),
                  yields |-> YieldsInsert(ys, term_hash)]
            ELSE [ret |-> None, words |-> ws, yields |-> ys]

\* TokenLexer::next: [ret, words, yields] after one call
RECURSIVE TokenLexer_next(_, _, _, _)
TokenLexer_next(m, loc, ws, ys) ==
    IF ws = <<>>
    THEN [ret |-> None, words |-> <<>>, yields |-> ys]
    ELSE LET word == Normalize(Head(ws))
             term_hash == StoreTermHash_from(word)
         IN IF KeepsWord(m, word, loc) /\ ~AlreadyYielded(ys, term_hash)
            THEN [ret |-> Some(<<word, term_hash>>),
                  words |-> Tail(ws),
                  yields |-> YieldsInsert(ys, term_hash)]
            ELSE TokenLexer_next(m, loc, Tail(ws), ys)

(***************************************************************************)
(* Inputs                                                                  *)
(***************************************************************************)
NoHint == "<absent>"
HintValues == {"none", "eng", "fra", "deu", "xxx", "en"}

\* "The" (which runs into the next unit), "the ", "fox ", "ici!" and " "
TextUnits == {W_The, W_the \o <<" ">>, W_fox \o <<" ">>, W_ici \o <<"!">>, <<" ">>}

RECURSIVE TextsUpTo(_)
TextsUpTo(n) ==
    IF n = 0 THEN {<<>>}
    ELSE LET prev == TextsUpTo(n - 1) IN prev \cup {t \o u : t \in prev, u \in TextUnits}

Texts == TextsUpTo(MaxUnits)

\* n copies of the character c
Pad(c, n) == [i \in 1..n |-> c]

\* the texts around the truncation limit
LongTexts ==
    {Pad("x", n) \o <<c>> \o Pad("e", m) :
        n \in (TEXT_LANG_TRUNCATE_OVER_CHARS - PadSlack)..(TEXT_LANG_TRUNCATE_OVER_CHARS + 1),
        c \in {"e", C_eacute, C_kuai, C_rocket},
        m \in 0..MaxTail}

\* the two lexer instances, their modes and their texts:
\* "the fox ", "ici!the ", "The" and their concatenations
Lexers == {1, 2}
TwoModes == {NormalizeOnly, NormalizeAndCleanup(None), NormalizeAndCleanup(Some("French"))}
TwoUnits == {W_the \o <<" ">> \o W_fox \o <<" ">>, W_ici \o <<"!">> \o W_the \o <<" ">>, W_The}

RECURSIVE TwoTextsUpTo(_)
TwoTextsUpTo(n) ==
    IF n = 0 THEN {<<>>}
    ELSE LET prev == TwoTextsUpTo(n - 1) IN prev \cup {t \o u : t \in prev, u \in TwoUnits}

TwoTexts == TwoTextsUpTo(MaxUnitsTwo)

\* no lexer built yet
NoLexer ==
    [pc |-> "new", mode |-> NormalizeOnly, text |-> <<>>, locale |-> None, words |-> <<>>,
     yields |-> {}, out |-> <<>>]

\* the lexers that are pulled from until exhausted: their modes and texts
PullModes == {NormalizeOnly, NormalizeAndCleanup(None), NormalizeAndCleanup(Some("English"))}
PullTexts == TextsUpTo(MaxUnitsPull)

\* the build with the feature tokenizer-japanese: its texts and modes, and the outcomes
\* of a fallible call into the tokenizer
SegUnits == {<<C_kuai, C_kuai, " ">>, W_the \o <<" ">>, <<C_kuai>>}

RECURSIVE SegTextsUpTo(_)
SegTextsUpTo(n) ==
    IF n = 0 THEN {<<>>}
    ELSE LET prev == SegTextsUpTo(n - 1) IN prev \cup {t \o u : t \in prev, u \in SegUnits}

SegTexts == SegTextsUpTo(MaxUnitsSeg)
SegModes == {NormalizeOnly, NormalizeAndCleanup(None), NormalizeAndCleanup(Some("English")),
             NormalizeAndCleanup(Some("Japanese"))}
Outcomes == {"Ok", "Err"}

\* no lexer built yet
NoSegLexer ==
    [pc |-> "new", mode |-> NormalizeOnly, text |-> <<>>, locale |-> None, variant |-> "UAX29",
     tokenize |-> "Ok", spans |-> <<>>, words |-> <<>>, word |-> None]

\* the threads, and what they call LexerStopWord::is with
Threads == 1..NumThreads
ThreadWords == {W_the, W_ici}
ThreadLocales == {Some(l) : l \in Language}

\* a thread that has not called yet
IdleThread ==
    [pc |-> "idle", word |-> <<>>, locale |-> None, static |-> "", acc |-> {}, idx |-> 0,
     seen |-> None, result |-> FALSE]

QueryWords == {W_The, W_the, W_fox, W_ici, W_le, W_der, W_over}
QueryLocales == {None} \cup {Some(l) : l \in Language}

(***************************************************************************)
(* The state machine                                                       *)
(***************************************************************************)
Init ==
    /\ pc = "start"
    /\ hint = NoHint
    /\ query_lang = None
    /\ mode = NormalizeOnly
    /\ text = <<>>
    /\ locale = None
    /\ words = <<>>
    /\ yields = {}
    /\ ret = None
    /\ out = <<>>
    /\ outpos = <<>>
    /\ detect_calls = 0
    /\ is_word = <<>>
    /\ is_locale = None
    /\ is_result = FALSE
    /\ dl_text = <<>>
    /\ dl_safe = <<"Ok", <<>>>>
    /\ dl_result = None
    /\ lex = [i \in Lexers |-> NoLexer]
    /\ once = [s \in Statics |-> "INCOMPLETE"]
    /\ cell = [s \in Statics |-> None]
    /\ builds = [s \in Statics |-> 0]
    /\ writes = [s \in Statics |-> 0]
    /\ th = [t \in Threads |-> IdleThread]
    /\ lindera = "INCOMPLETE"
    /\ seg = NoSegLexer

\* a direct call of LexerStopWord::is(word, locale)
StopWordIs ==
    /\ pc \in {"start", "is"}
    /\ \E w \in QueryWords, l \in QueryLocales :
          /\ is_word' = w
          /\ is_locale' = l
          /\ is_result' = LexerStopWord_is(w, l)
    /\ pc' = "is"
    /\ UNCHANGED <<hint, query_lang, mode, text, locale, words, yields, ret, out, outpos,
                   detect_calls>>
    /\ UNCHANGED ext_vars

\* the caller got a selector string and parses it: QueryGenericLang::from_value(value)
ParseHint ==
    /\ pc = "start"
    /\ \E value \in HintValues :
          /\ hint' = value
          /\ query_lang' = from_value(value)
    /\ pc' = "hint"
    /\ UNCHANGED <<mode, text, locale, words, yields, ret, out, outpos, detect_calls,
                   is_word, is_locale, is_result>>
    /\ UNCHANGED ext_vars

\* the caller got no selector: the query language is absent
NoHintGiven ==
    /\ pc = "start"
    /\ hint' = NoHint
    /\ query_lang' = None
    /\ pc' = "hint"
    /\ UNCHANGED <<mode, text, locale, words, yields, ret, out, outpos, detect_calls,
                   is_word, is_locale, is_result>>
    /\ UNCHANGED ext_vars

\* TokenLexerMode::from_query_lang(query_lang)
FromQueryLang ==
    /\ pc = "hint"
    /\ mode' = from_query_lang(query_lang)
    /\ pc' = "mode"
    /\ UNCHANGED <<hint, query_lang, text, locale, words, yields, ret, out, outpos,
                   detect_calls, is_word, is_locale, is_result>>
    /\ UNCHANGED ext_vars

\* TokenLexerBuilder::from(mode, text), with TokenLexer::new
BuilderFrom ==
    /\ pc = "mode"
    /\ \E t \in Texts :
          LET loc == BuilderLocale(mode, t) IN
          /\ text' = t
          /\ locale' = loc
          /\ words' = NewWords(t, loc)
    /\ detect_calls' = IF RunsDetect(mode) THEN detect_calls + 1 ELSE detect_calls
    /\ yields' = {}
    /\ pc' = "built"
    /\ UNCHANGED <<hint, query_lang, mode, ret, out, outpos, is_word, is_locale, is_result>>
    /\ UNCHANGED ext_vars

\* TokenLexer::next
Next_call ==
    /\ pc \in {"built", "done"}
    /\ LET r == TokenLexer_next(mode, locale, words, yields) IN
          /\ ret' = r.ret
          /\ words' = r.words
          /\ yields' = r.yields
          /\ out' = IF IsSome(r.ret) THEN Append(out, Unwrap(r.ret)) ELSE out
          /\ outpos' = IF IsSome(r.ret)
                       THEN Append(outpos, Len(unicode_words(text)) - Len(r.words))
                       ELSE outpos
          /\ pc' = IF IsSome(r.ret) THEN "built" ELSE "done"
    /\ UNCHANGED <<hint, query_lang, mode, text, locale, detect_calls, is_word, is_locale,
                   is_result>>
    /\ UNCHANGED ext_vars

Next ==
    \/ StopWordIs
    \/ ParseHint
    \/ NoHintGiven
    \/ FromQueryLang
    \/ BuilderFrom
    \/ Next_call

Spec == Init /\ [][Next]_vars

\* TokenLexerBuilder::from(mode, text) called with a mode of the caller's choice, as the
\* tests of lexer/token.rs do
BuilderFromMode ==
    /\ pc = "start"
    /\ \E m \in PullModes, t \in PullTexts :
          LET loc == BuilderLocale(m, t) IN
          /\ mode' = m
          /\ text' = t
          /\ locale' = loc
          /\ words' = NewWords(t, loc)
          /\ detect_calls' = IF RunsDetect(m) THEN detect_calls + 1 ELSE detect_calls
    /\ yields' = {}
    /\ pc' = "built"
    /\ UNCHANGED <<hint, query_lang, ret, out, outpos, is_word, is_locale, is_result>>
    /\ UNCHANGED ext_vars

NextPull == BuilderFromMode \/ Next_call

\* the consumer of a lexer keeps pulling: a TokenLexer::next call that can change the
\* state is eventually made
FairSpec == Init /\ [][NextPull]_vars /\ WF_vars(Next_call)

(***************************************************************************)
(* Direct calls of detect_lang on texts around the truncation limit        *)
(***************************************************************************)
\* TokenLexerBuilder::detect_lang(text), called once
DetectLang ==
    /\ dl_text = <<>>
    /\ \E t \in LongTexts :
          /\ dl_text' = t
          /\ dl_safe' = SafeText(t)
          /\ dl_result' = detect_lang(t)
    /\ UNCHANGED <<main_vars, two_vars, thread_vars, seg_vars>>

NextDetect == DetectLang

SpecDetect == Init /\ [][NextDetect]_vars

(***************************************************************************)
(* Two lexer instances, built and run in any interleaving                  *)
(***************************************************************************)
\* TokenLexer::new, lines 162-167: the lexer as constructed
TokenLexer_new(m, t, loc) ==
    [pc |-> "built", mode |-> m, text |-> t, locale |-> loc, words |-> NewWords(t, loc),
     yields |-> {}, out |-> <<>>]

Install_KeepsYields(lx, i, l) ==
    [lx EXCEPT ![i] = [l EXCEPT !.yields = lx[i].yields]]

\* the lexer that TokenLexerBuilder::from returns takes the place of the instance i
Install(lx, i, l) == [lx EXCEPT ![i] = l]

YieldsSeen_Shared(lx, i) == UNION {lx[j].yields : j \in DOMAIN lx}

\* TokenLexer::next, line 214: self.yields, the set of the instance itself
YieldsSeen(lx, i) == lx[i].yields

\* TokenLexerBuilder::from(mode, text) for the instance i; the first instance may be
\* dropped once exhausted and built anew
BuildOn(i) ==
    /\ lex[i].pc = "new" \/ (i = 1 /\ lex[i].pc = "done")
    /\ \E m \in TwoModes, t \in TwoTexts :
          lex' = Install(lex, i, TokenLexer_new(m, t, BuilderLocale(m, t)))
    /\ UNCHANGED <<main_vars, detect_vars, thread_vars, seg_vars>>

\* TokenLexer::next on the instance i
NextOn(i) ==
    /\ lex[i].pc \in {"built", "done"}
    /\ LET l == lex[i]
           r == TokenLexer_next(l.mode, l.locale, l.words, YieldsSeen(lex, i))
       IN lex' = [lex EXCEPT ![i] =
                     [l EXCEPT !.words = r.words,
                               !.yields = r.yields,
                               !.out = IF IsSome(r.ret) THEN Append(l.out, Unwrap(r.ret))
                                       ELSE l.out,
                               !.pc = IF IsSome(r.ret) THEN "built" ELSE "done"]]
    /\ UNCHANGED <<main_vars, detect_vars, thread_vars, seg_vars>>

NextTwo == \E i \in Lexers : BuildOn(i) \/ NextOn(i)

SpecTwo == Init /\ [][NextTwo]_vars

(***************************************************************************)
(* The build with the feature tokenizer-japanese: segmentation dispatch    *)
(***************************************************************************)
\* Tokenizer::tokenize when it succeeds: the tokens cover the whole text, a run of word
\* characters or a run of other characters each
lindera_tokens(t) ==
    LET starts == {i \in DOMAIN t : i = 1 \/ IsWordChar(t[i]) # IsWordChar(t[i - 1])}
        nth(k) == CHOOSE i \in starts : Cardinality({x \in starts : x < i}) = k - 1
        last(k) == IF k = Cardinality(starts) THEN Len(t) ELSE nth(k + 1) - 1
    IN [k \in 1..Cardinality(starts) |-> SubSeq(t, nth(k), last(k))]

\* lazy_static TOKENIZER_LINDERA, dereferenced: the first dereference runs from_config and
\* expect panics on its error, which poisons the Once for every later dereference
LinderaDeref(state, from_config) ==
    IF state = "INCOMPLETE" THEN (IF from_config = "Ok" THEN "COMPLETE" ELSE "POISONED")
    ELSE state

\* TokenLexer::new with the feature tokenizer-japanese; state is the Once after the
\* dereference, tokenize the outcome of TOKENIZER_LINDERA.tokenize(text)
TokenLexer_new_japanese(m, t, loc, state, tokenize) ==
    LET lexer(variant, spans) ==
            [pc |-> "built", mode |-> m, text |-> t, locale |-> loc, variant |-> variant,
             tokenize |-> tokenize, spans |-> spans, words |-> spans, word |-> None]
    IN IF loc = Some("Japanese")
       THEN IF state # "COMPLETE"
            THEN [NoSegLexer EXCEPT !.pc = "panic", !.mode = m, !.text = t, !.locale = loc]
            ELSE IF tokenize = "Ok" THEN lexer("Lindera", lindera_tokens(t))
                 ELSE lexer("UAX29", unicode_words(t))
       ELSE lexer("UAX29", unicode_words(t))

\* TokenLexerBuilder::from(mode, text), called when no lexer is held: at the start, or
\* after a call that panicked
SegFrom ==
    /\ seg.pc \in {"new", "panic"}
    /\ \E m \in SegModes, t \in SegTexts, from_config \in Outcomes, tokenize \in Outcomes :
          LET loc == BuilderLocale(m, t)
              state == IF loc = Some("Japanese") THEN LinderaDeref(lindera, from_config)
                       ELSE lindera
          IN /\ lindera' = state
             /\ seg' = TokenLexer_new_japanese(m, t, loc, state, tokenize)
    /\ UNCHANGED <<main_vars, detect_vars, two_vars, thread_vars>>

\* TokenLexerWords::next: the next span of whichever variant the lexer holds
SegWordsNext ==
    /\ seg.pc = "built"
    /\ seg' = IF seg.words = <<>> THEN [seg EXCEPT !.word = None, !.pc = "done"]
              ELSE [seg EXCEPT !.word = Some(Head(seg.words)), !.words = Tail(seg.words)]
    /\ UNCHANGED lindera
    /\ UNCHANGED <<main_vars, detect_vars, two_vars, thread_vars>>

NextSeg == SegFrom \/ SegWordsNext

SpecSeg == Init /\ [][NextSeg]_vars

(***************************************************************************)
(* Threads calling LexerStopWord::is concurrently: the lazy statics        *)
(***************************************************************************)
\* LexerStopWord::is(word, Some(lang)) up to lang_stopwords: the thread is about to
\* dereference the static of the language
ThreadCall(t) ==
    /\ th[t].pc = "idle"
    /\ \E w \in ThreadWords, l \in ThreadLocales :
          th' = [th EXCEPT ![t] = [@ EXCEPT !.pc = "deref", !.word = w, !.locale = l,
                                            !.static = lang_stopwords_ref(Unwrap(l))]]
    /\ UNCHANGED <<once, cell, builds, writes>>
    /\ UNCHANGED <<main_vars, detect_vars, two_vars, seg_vars>>

\* the dereference finds the Once not run yet and the thread becomes the initializer;
\* a thread that finds it running waits
ThreadDerefInit(t) ==
    /\ th[t].pc = "deref"
    /\ OnceMayRun(once[th[t].static])
    /\ once' = [once EXCEPT ![th[t].static] = "RUNNING"]
    /\ builds' = [builds EXCEPT ![th[t].static] = @ + 1]
    /\ th' = [th EXCEPT ![t] = [@ EXCEPT !.pc = "make", !.acc = {}, !.idx = 0]]
    /\ UNCHANGED <<cell, writes>>
    /\ UNCHANGED <<main_vars, detect_vars, two_vars, seg_vars>>

\* fn make, one word of the table collected into the set under construction
ThreadMakeStep(t) ==
    /\ th[t].pc = "make"
    /\ th[t].idx < Len(StaticTable(th[t].static))
    /\ th' = [th EXCEPT ![t] = [@ EXCEPT !.idx = @ + 1,
                                         !.acc = @ \cup {StaticTable(th[t].static)[th[t].idx + 1]}]]
    /\ UNCHANGED <<once, cell, builds, writes>>
    /\ UNCHANGED <<main_vars, detect_vars, two_vars, seg_vars>>

\* the initializer returns: the set is stored in the cell and the Once completes
ThreadStore(t) ==
    /\ th[t].pc = "make"
    /\ th[t].idx = Len(StaticTable(th[t].static))
    /\ cell' = [cell EXCEPT ![th[t].static] = Some(th[t].acc)]
    /\ writes' = [writes EXCEPT ![th[t].static] = @ + 1]
    /\ once' = [once EXCEPT ![th[t].static] = "COMPLETE"]
    /\ th' = [th EXCEPT ![t] = [@ EXCEPT !.pc = "read"]]
    /\ UNCHANGED builds
    /\ UNCHANGED <<main_vars, detect_vars, two_vars, seg_vars>>

\* the dereference finds the Once complete
ThreadDerefDone(t) ==
    /\ th[t].pc = "deref"
    /\ OnceDone(once[th[t].static])
    /\ th' = [th EXCEPT ![t] = [@ EXCEPT !.pc = "read"]]
    /\ UNCHANGED <<once, cell, builds, writes>>
    /\ UNCHANGED <<main_vars, detect_vars, two_vars, seg_vars>>

\* LexerStopWord::is, line 120: contains on the set the cell holds
ThreadRead(t) ==
    /\ th[t].pc = "read"
    /\ th' = [th EXCEPT ![t] = [@ EXCEPT !.pc = "done",
                                         !.seen = cell[th[t].static],
                                         !.result = /\ IsSome(cell[th[t].static])
                                                    /\ th[t].word \in Unwrap(cell[th[t].static])]]
    /\ UNCHANGED <<once, cell, builds, writes>>
    /\ UNCHANGED <<main_vars, detect_vars, two_vars, seg_vars>>

NextThreads ==
    \E t \in Threads :
        \/ ThreadCall(t)
        \/ ThreadDerefInit(t)
        \/ ThreadMakeStep(t)
        \/ ThreadStore(t)
        \/ ThreadDerefDone(t)
        \/ ThreadRead(t)

SpecThreads == Init /\ [][NextThreads]_vars

(***************************************************************************)
(* Notions the properties are stated with                                  *)
(***************************************************************************)
\* the lowercased span sequence that segmentation produces for the text
LowerSpans ==
    LET ws == unicode_words(text) IN [i \in DOMAIN ws |-> to_lowercase(ws[i])]

\* the tokens of the pairs yielded so far
OutTokens == {out[k][1] : k \in DOMAIN out}

\* the curated stopword list of a language: the set declared under its ISO 639-3 code
CuratedList(lang) ==
    CASE lang = "English" -> STOPWORDS_ENG
      [] lang = "French" -> STOPWORDS_FRA
      [] lang = "German" -> STOPWORDS_DEU

\* a sequence with every element dropped whose hash is the hash of an earlier element,
\* each remaining element paired with its hash
RECURSIVE DedupFrom(_, _)
DedupFrom(ls, i) ==
    IF i > Len(ls) THEN <<>>
    ELSE (IF \E j \in 1..(i - 1) : StoreTermHash_from(ls[j]) = StoreTermHash_from(ls[i])
          THEN <<>>
          ELSE << <<ls[i], StoreTermHash_from(ls[i])>> >>) \o DedupFrom(ls, i + 1)

IsPrefix(s, t) == Len(s) <= Len(t) /\ SubSeq(t, 1, Len(s)) = s

\* the pairs a lexer yields until it returns None
RECURSIVE Drain(_, _, _, _)
Drain(m, loc, ws, ys) ==
    LET r == TokenLexer_next(m, loc, ws, ys) IN
    IF IsSome(r.ret) THEN <<Unwrap(r.ret)>> \o Drain(m, loc, r.words, r.yields) ELSE <<>>

\* the output of a lexer built from (mode, text) and run alone
RunAlone(m, t) ==
    LET loc == BuilderLocale(m, t) IN Drain(m, loc, NewWords(t, loc), {})

Running == pc \in {"built", "done"}

\* a selector that is neither the sentinel nor a code of a supported language
InvalidHint(h) ==
    h \in HintValues /\ h # "none" /\ IsoCode639_3_from_str(h)[1] = "Err"

(***************************************************************************)
(* Properties                                                              *)
(***************************************************************************)

\* C1: after any number of next calls on one lexer, no two yielded (token, hash)
\* pairs carry the same term hash.
C1_UniqueHashes ==
    \A i, j \in DOMAIN out : i # j => out[i][2] # out[j][2]

\* C1 witness: two pairs were yielded and a later span was dropped because its hash
\* had been yielded already.
C1_Witness ==
    /\ pc = "done"
    /\ Len(out) >= 2
    /\ \E i \in DOMAIN LowerSpans :
          /\ KeepsWord(mode, LowerSpans[i], locale)
          /\ \E k \in DOMAIN out : outpos[k] < i /\ out[k][2] = StoreTermHash_from(LowerSpans[i])

\* C2: the output is a subsequence of the lowercased span sequence; every yielded
\* token stands at the position of its first occurrence in that sequence, and the
\* yielded tokens keep the order of those positions.
C2_FirstOccurrenceOrder ==
    /\ Len(outpos) = Len(out)
    /\ \A k \in DOMAIN out :
          /\ outpos[k] \in DOMAIN LowerSpans
          /\ LowerSpans[outpos[k]] = out[k][1]
          /\ \A j \in 1..(outpos[k] - 1) : LowerSpans[j] # out[k][1]
    /\ \A k, l \in DOMAIN out : k < l => outpos[k] < outpos[l]

\* C2 witness: a run ended after yielding two tokens, the first of which occurs
\* again after the second one.
C2_Witness ==
    /\ pc = "done"
    /\ Len(out) >= 2
    /\ \E i \in DOMAIN LowerSpans : i > outpos[2] /\ LowerSpans[i] = out[1][1]

\* C3: in cleanup mode with a resolved language, no yielded token is a stopword of
\* that language as LexerStopWord::is reports it; the test sees the lowercased form.
C3_NoStopwordYielded ==
    (Running /\ mode[1] = "NormalizeAndCleanup" /\ IsSome(locale))
        => \A k \in DOMAIN out :
              /\ ~LexerStopWord_is(out[k][1], locale)
              /\ ~LexerStopWord_is(to_lowercase(unicode_words(text)[outpos[k]]), locale)

\* C3 witness: a cleanup run with a resolved language ended, its text holds the span
\* "The", "the" is a stopword of the language, and another token was yielded.
C3_Witness ==
    /\ pc = "done"
    /\ mode[1] = "NormalizeAndCleanup"
    /\ IsSome(locale)
    /\ \E i \in DOMAIN unicode_words(text) : unicode_words(text)[i] = W_The
    /\ LexerStopWord_is(W_the, locale)
    /\ out # <<>>

\* C4: in NormalizeOnly mode nothing is dropped by stopword filtering: the output is
\* the lowercased span sequence with hash-duplicates removed (a prefix of it while the
\* run goes on).
C4_NormalizeOnlyOutput ==
    (Running /\ mode = NormalizeOnly)
        => /\ IsPrefix(out, DedupFrom(LowerSpans, 1))
           /\ pc = "done" => out = DedupFrom(LowerSpans, 1)

\* C4 witness: the text "the the " in NormalizeOnly mode ended with the one token "the".
C4_Witness ==
    /\ pc = "done"
    /\ mode = NormalizeOnly
    /\ text = W_the \o <<" ">> \o W_the \o <<" ">>
    /\ out = << <<W_the, StoreTermHash_from(W_the)>> >>

\* C5 (as claimed): for every language L, LexerStopWord::is(token, Some(L)) is true
\* exactly for the tokens of L's curated stopword list.
C5_CuratedListDecides ==
    (pc = "is" /\ IsSome(is_locale))
        => (is_result <=> is_word \in CuratedList(Unwrap(is_locale)))

\* C6: LexerStopWord::is(word, None) is false for every word.
C6_AbsentLocaleNeverStopword ==
    (pc = "is" /\ is_locale = None) => is_result = FALSE

\* C6 witness: is was called with an absent language on a word that is a stopword
\* of some language.
C6_Witness ==
    /\ pc = "is"
    /\ is_locale = None
    /\ is_word = W_the
    /\ \E l \in Language : is_word \in lang_stopwords(l)

\* C7 (as claimed): what from_value returns for an invalid selector never leads,
\* through from_query_lang, to a lexer mode.
C7_InvalidHintNoMode ==
    InvalidHint(hint) => pc \notin {"mode", "built", "done"}

\* C8: when the hint resolves to a language L, the lexer built from it has locale
\* exactly L, whatever the text, and detect_lang did not run.
C8_HintForcesLocale ==
    \A l \in Language :
        (Running /\ query_lang = Some(Enabled(l)))
            => locale = Some(l) /\ detect_calls = 0

\* C8 witness: a lexer was built with the hint "fra" over a text that the detector
\* takes for English.
C8_Witness ==
    /\ Running
    /\ hint = "fra"
    /\ detect_lang(text) = Some("English")
    /\ locale = Some("French")

\* C9: the sentinel "none" gives Disabled, then NormalizeOnly, and a lexer built in
\* that mode has an absent locale, detect_lang never having run.
C9_SentinelNormalizeOnly ==
    hint = "none"
        => /\ query_lang = Some(Disabled)
           /\ pc \in {"mode", "built", "done"} => mode = NormalizeOnly
           /\ Running => (locale = None /\ detect_calls = 0)

\* C9 witness: a lexer was built from the hint "none" over a text the detector would
\* take for English.
C9_Witness ==
    /\ Running
    /\ hint = "none"
    /\ detect_lang(text) = Some("English")
    /\ locale = None

\* C10 (as claimed): with a hinted language X, every token that is in the curated
\* list of another language but not in X's, and whose hash was not yielded by an
\* earlier span, is in the output of the exhausted run.
C10_HintedListFilters ==
    \A x \in Language :
        (pc = "done" /\ query_lang = Some(Enabled(x)))
            => \A i \in DOMAIN LowerSpans :
                  (/\ LowerSpans[i] \notin CuratedList(x)
                   /\ \E y \in Language \ {x} : LowerSpans[i] \in CuratedList(y)
                   /\ ~\E k \in DOMAIN out :
                          outpos[k] < i /\ out[k][2] = StoreTermHash_from(LowerSpans[i]))
                  => LowerSpans[i] \in OutTokens

\* C11: detect_lang hands the detector the whole text when it has at most 200
\* characters, and otherwise the prefix that holds exactly its first 200 characters;
\* the cut never falls inside a character and the slice never panics.
C11_TruncationOnBoundary ==
    dl_text # <<>>
        => /\ dl_safe[1] = "Ok"
           /\ dl_result # <<"Panic">>
           /\ Len(dl_text) <= TEXT_LANG_TRUNCATE_OVER_CHARS => dl_safe[2] = dl_text
           /\ Len(dl_text) > TEXT_LANG_TRUNCATE_OVER_CHARS
                 => dl_safe[2] = SubSeq(dl_text, 1, TEXT_LANG_TRUNCATE_OVER_CHARS)

\* C11 witness: a text of more than 200 characters whose 200th character takes
\* several bytes and lies across byte offset 200 was cut after that character.
C11_Witness ==
    /\ Len(dl_text) > TEXT_LANG_TRUNCATE_OVER_CHARS
    /\ Utf8Len(dl_text[TEXT_LANG_TRUNCATE_OVER_CHARS]) > 1
    /\ PrefixBytes(dl_text, TEXT_LANG_TRUNCATE_OVER_CHARS - 1) < TEXT_LANG_TRUNCATE_OVER_CHARS
    /\ PrefixBytes(dl_text, TEXT_LANG_TRUNCATE_OVER_CHARS) > TEXT_LANG_TRUNCATE_OVER_CHARS
    /\ dl_safe = <<"Ok", SubSeq(dl_text, 1, TEXT_LANG_TRUNCATE_OVER_CHARS)>>

\* a text of more than 200 bytes and at most 200 characters went to the detector whole
C11_WitnessBytesOnly ==
    /\ ByteLen(dl_text) > TEXT_LANG_TRUNCATE_OVER_CHARS
    /\ Len(dl_text) <= TEXT_LANG_TRUNCATE_OVER_CHARS
    /\ dl_safe = <<"Ok", dl_text>>

\* C12: two lexers built from the same (text, mode) yield the same (token, hash)
\* pairs in the same order, whatever was built or run before or in between: at any
\* time one output is a prefix of the other, and the exhausted outputs are equal.
C12_Deterministic ==
    \A i, j \in Lexers :
        (/\ i # j
         /\ lex[i].pc # "new" /\ lex[j].pc # "new"
         /\ lex[i].text = lex[j].text /\ lex[i].mode = lex[j].mode)
            => /\ IsPrefix(lex[i].out, lex[j].out) \/ IsPrefix(lex[j].out, lex[i].out)
               /\ (lex[i].pc = "done" /\ lex[j].pc = "done") => lex[i].out = lex[j].out

\* C12 witness: both lexers were built from the same text in auto-detect mode and
\* exhausted, and both yielded the same non-empty output.
C12_Witness ==
    /\ lex[1].pc = "done" /\ lex[2].pc = "done"
    /\ lex[1].text = lex[2].text /\ lex[1].mode = lex[2].mode
    /\ lex[1].mode = NormalizeAndCleanup(None)
    /\ lex[1].out # <<>>
    /\ lex[1].out = lex[2].out

\* C18: under any interleaving of next calls on two lexers, the output of each is the
\* output it yields when run alone (a prefix of it until it is exhausted); a token
\* yielded by one lexer is not suppressed as a duplicate in the other.
C18_IndependentInstances ==
    \A i \in Lexers :
        lex[i].pc # "new"
            => /\ IsPrefix(lex[i].out, RunAlone(lex[i].mode, lex[i].text))
               /\ lex[i].pc = "done" => lex[i].out = RunAlone(lex[i].mode, lex[i].text)

\* C18 witness: the two lexers run on different texts, both are exhausted, and both
\* yielded a pair with the same hash.
C18_Witness ==
    /\ lex[1].pc = "done" /\ lex[2].pc = "done"
    /\ lex[1].text # lex[2].text
    /\ \E k \in DOMAIN lex[1].out, l \in DOMAIN lex[2].out : lex[1].out[k][2] = lex[2].out[l][2]

\* C13: under any interleaving of concurrent LexerStopWord::is calls, the set of a
\* language is constructed at most once, its cell is written at most once (it is not
\* modified after construction) and holds nothing before, and every caller reads the
\* complete set.
C13_StopwordSetsBuiltOnce ==
    /\ \A s \in Statics :
          /\ builds[s] <= 1
          /\ writes[s] <= 1
          /\ once[s] = "COMPLETE" => cell[s] = Some(make(StaticTable(s)))
          /\ once[s] # "COMPLETE" => cell[s] = None
    /\ \A t \in Threads :
          th[t].pc = "done"
              => /\ th[t].seen = Some(make(StaticTable(th[t].static)))
                 /\ th[t].result = LexerStopWord_is(th[t].word, th[t].locale)

\* C13 witness: two threads called for the same static; one of them reached the
\* dereference while the other was constructing the set, and both have read it.
C13_Witness ==
    \E t, u \in Threads :
        /\ t # u
        /\ th[t].static = th[u].static
        /\ th[t].pc = "done" /\ th[u].pc = "done"
        /\ builds[th[t].static] = 1

\* a thread waits at the dereference while another one constructs the set
C13_WitnessWaiting ==
    \E t, u \in Threads :
        /\ th[t].pc = "make" /\ th[t].idx = 1
        /\ th[u].pc = "deref" /\ th[u].static = th[t].static

\* C14: pipeline construction never hard-fails because of a segmentation backend:
\* TokenLexerBuilder::from never panics, whatever the Japanese tokenizer answers.
C14_NeverHardFails == seg.pc # "panic"

\* the half of C14 the code keeps: when tokenize returns an error, the lexer is built
\* with the UAX29 segmentation of the same text
C14_TokenizeErrorFallsBack ==
    (seg.pc \in {"built", "done"} /\ seg.locale = Some("Japanese") /\ seg.tokenize = "Err")
        => (seg.variant = "UAX29" /\ seg.spans = unicode_words(seg.text))

\* a Japanese lexer fell back on a text the two segmentations split differently
C14_FallbackWitness ==
    /\ seg.pc = "built" /\ seg.locale = Some("Japanese") /\ seg.tokenize = "Err"
    /\ seg.spans # lindera_tokens(seg.text)

\* C15: when auto-detection is inconclusive (mode NormalizeAndCleanup(None), detect_lang
\* returns None), the lexer is built without a locale and the output of the exhausted
\* run equals the output of a NormalizeOnly run on the same text.
C15_InconclusiveSkipsFilter ==
    (pc = "done" /\ mode = NormalizeAndCleanup(None) /\ detect_lang(text) = None)
        => (locale = None /\ out = RunAlone(NormalizeOnly, text))

\* C15 witness: an exhausted auto-detect run on a text with no language standing out
\* yielded a word of a curated stopword list.
C15_Witness ==
    /\ pc = "done" /\ mode = NormalizeAndCleanup(None) /\ detect_lang(text) = None
    /\ W_the \in OutTokens

\* C16: for a language that has no arm in lang_stopwords, LexerStopWord::is tests the
\* word against the English set: is(word, Some(L)) equals is(word, Some(English)).
C16_UnmappedFallsBackToEnglish ==
    (pc = "is" /\ IsSome(is_locale) /\ Unwrap(is_locale) \notin MappedLanguages)
        => /\ is_result = LexerStopWord_is(is_word, Some("English"))
           /\ is_result = (is_word \in STOPWORDS_ENG)

\* C16 witness: a call for German, which has no arm, answered true for an English
\* stopword: filtering is not disabled.
C16_Witness ==
    /\ pc = "is" /\ is_locale = Some("German")
    /\ is_word = W_the /\ is_result = TRUE

\* C17: iteration terminates and cannot fail: a TokenLexer::next call either returns a
\* (token, hash) pair and leaves strictly fewer spans, or returns None with the span
\* sequence exhausted; and a lexer that is pulled from eventually returns None.
C17_IterationTerminates ==
    /\ [][Next_call =>
            /\ IsSome(ret') => /\ Len(Unwrap(ret')) = 2
                               /\ Len(words') < Len(words)
                               /\ pc' = "built"
            /\ ~IsSome(ret') => /\ ret' = None
                                /\ words' = <<>>
                                /\ pc' = "done"]_vars
    /\ (pc = "built") ~> (pc = "done" /\ ret = None)

\* C17 witness: an exhausted lexer returned None after a pair, and the call that
\* returned the first pair consumed more than one span.
C17_Witness ==
    /\ pc = "done" /\ ret = None /\ words = <<>>
    /\ out # <<>>
    /\ outpos[1] > 1

====
